---- MODULE Spec2Model ----
(***************************************************************************)
(* The semantic pattern graph of semantic-compiler: SemanticGraph with its *)
(* mutators (add_node, root registration), the pattern detector            *)
(* (detect_patterns, analyze_node_pattern, has_recursive_structure) and    *)
(* the semantic hasher (calculate_semantic_hash, hash_node_tree); and the  *)
(* async examples of parflow-core (run_example_par, run_example_seq).      *)
(*                                                                         *)
(* A u64 is a natural number; every value used here is below 2^31.  A      *)
(* String is a TLA+ string, turned into its UTF-8 bytes by AsBytes.  A     *)
(* Vec is a sequence, a HashMap a function on its key set, an Option a     *)
(* sequence of length 0 (None) or 1 (Some).                                *)
(***************************************************************************)
EXTENDS Integers, Sequences, FiniteSets, TLC

VARIABLES
    nodes,          \* SemanticGraph.nodes: HashMap<u64, SemanticNode>
    root_nodes,     \* SemanticGraph.root_nodes: Vec<u64>
    pattern_cache,  \* SemanticGraph.pattern_cache: HashMap<u64, Vec<u64>>
    language,       \* SemanticGraph.language: String
    ret,            \* the last call made on the graph and what it returned
    detect_calls,   \* number of detect_patterns calls made so far
    now,            \* the runtime's clock, in ticks of TickMillis
    tasks,          \* the tasks spawned on the runtime, by join handle
    caller          \* position and locals of the code awaiting the examples

vars == <<nodes, root_nodes, pattern_cache, language, ret, detect_calls,
          now, tasks, caller>>

----------------------------------------------------------------------------
(* Bounds of the model.                                                    *)

\* root_nodes grows to at most MaxRoots entries.
MaxRoots == 2
\* detect_patterns is called at most MaxDetect times on one graph.
MaxDetect == 1
\* A caller that re-runs detection on an unchanged graph calls detect_patterns
\* at most MaxRepeat times.
MaxRepeat == 3

\* The clock stops after this many ticks.
MaxTicks == 8

----------------------------------------------------------------------------
(* Data model.                                                             *)

\* enum PatternType of semantic_graph.rs, in declaration order.
PatternTypes ==
    <<"FibonacciLike", "MapReduce", "Builder", "IteratorChain", "RecursiveTree",
      "Cacheable", "DataProcessor", "WebEndpoint", "DatabaseQuery">>

PatternTypeSet == {PatternTypes[i] : i \in 1..Len(PatternTypes)}

\* `pattern as u64` with the variants numbered from one.
PatternCodeFromOne(p) == CHOOSE i \in 1..Len(PatternTypes) : PatternTypes[i] = p

\* `pattern as u64`: the discriminant of a fieldless enum is the position of
\* the variant in the declaration, counted from 0.
PatternCode(p) == (CHOOSE i \in 1..Len(PatternTypes) : PatternTypes[i] = p) - 1

\* The discriminants of enum PatternType of semantic_graph.rs, written out.
Discriminant ==
    [FibonacciLike |-> 0, MapReduce |-> 1, Builder |-> 2, IteratorChain |-> 3,
     RecursiveTree |-> 4, Cacheable |-> 5, DataProcessor |-> 6, WebEndpoint |-> 7,
     DatabaseQuery |-> 8]

\* enum NodeType: a unit variant is <<tag>>, Pattern(p) is <<"Pattern", p>>.
Function == <<"Function">>
Variable == <<"Variable">>
ControlFlow == <<"ControlFlow">>
Arithmetic == <<"Arithmetic">>
Comparison == <<"Comparison">>
Loop == <<"Loop">>
Pattern(p) == <<"Pattern", p>>

\* HashMap::new() as metadata, and the one annotation the detector reads.
NoMetadata == [k \in {} |-> ""]
MapReduceMetadata == [k \in {"operation"} |-> "map_reduce"]

\* struct SemanticNode.
SemanticNode(id, node_type, children, metadata, lang, pattern_hash) ==
    [id |-> id, node_type |-> node_type, children |-> children,
     metadata |-> metadata, language |-> lang, pattern_hash |-> pattern_hash]

\* HashMap::new(): the map with no key.
EmptyMap == [k \in {} |-> <<>>]

\* An insert that keeps the value a key already has.
MapInsertIfAbsent(m, key, value) ==
    [k \in DOMAIN m \cup {key} |-> IF k \in DOMAIN m THEN m[k] ELSE value]

\* HashMap::insert(key, value): insert or replace.
MapInsert(m, key, value) ==
    [k \in DOMAIN m \cup {key} |-> IF k = key THEN value ELSE m[k]]

\* What a call leaves behind: its name, whether it returned, and its value.
Returned(op, value) == [op |-> op, returns |-> TRUE, value |-> value]
NoReturn(op) == [op |-> op, returns |-> FALSE, value |-> <<>>]

\* The graph as one value, for the operators that take &self.
Graph(ns, roots, cache, lang) ==
    [nodes |-> ns, root_nodes |-> roots, pattern_cache |-> cache, language |-> lang]

Self == Graph(nodes, root_nodes, pattern_cache, language)

----------------------------------------------------------------------------
(* Bytes.                                                                  *)

\* u64::to_le_bytes: eight bytes, least significant first (v < 2^31, so the
\* upper four bytes are 0).
ToLeBytes(v) ==
    [i \in 1..8 |->
        CASE i = 1 -> v % 256
          [] i = 2 -> (v \div 256) % 256
          [] i = 3 -> (v \div 65536) % 256
          [] i = 4 -> (v \div 16777216) % 256
          [] OTHER -> 0]

\* str::as_bytes of the strings in use: language tags, metadata keys and
\* values.
AsBytes(s) ==
    CASE s = "" -> <<>>
      [] s = "rust" -> <<114, 117, 115, 116>>
      [] s = "python" -> <<112, 121, 116, 104, 111, 110>>
      [] s = "javascript" -> <<106, 97, 118, 97, 115, 99, 114, 105, 112, 116>>
      [] s = "test" -> <<116, 101, 115, 116>>
      [] s = "operation" -> <<111, 112, 101, 114, 97, 116, 105, 111, 110>>
      [] s = "map_reduce" -> <<109, 97, 112, 95, 114, 101, 100, 117, 99, 101>>
      [] s = "filter" -> <<102, 105, 108, 116, 101, 114>>
      [] s = "name" -> <<110, 97, 109, 101>>
      [] s = "fib" -> <<102, 105, 98>>

----------------------------------------------------------------------------
(* impl Hash for SemanticNode.  What is fed to the std Hasher is modelled  *)
(* as the bytes written: a u64, usize or isize as eight bytes, a str as    *)
(* its bytes and the byte 0xff.                                            *)

\* Hasher::write_u64, write_usize, write_isize of a value below 2^31.
WriteInt(state, v) == state \o ToLeBytes(v)

\* Hasher::write_str: the bytes, then 0xff.
WriteStr(state, str) == state \o AsBytes(str) \o <<255>>

\* #[derive(Hash)] on NodeType: the discriminant, then the field of
\* Pattern(p), whose derived hash is the discriminant of p.
NodeTypeDiscriminant(node_type) ==
    CASE node_type[1] = "Function" -> 0
      [] node_type[1] = "Variable" -> 1
      [] node_type[1] = "ControlFlow" -> 2
      [] node_type[1] = "Arithmetic" -> 3
      [] node_type[1] = "Comparison" -> 4
      [] node_type[1] = "Loop" -> 5
      [] node_type[1] = "Pattern" -> 6

hash_node_type(state, node_type) ==
    IF node_type[1] = "Pattern"
    THEN WriteInt(WriteInt(state, NodeTypeDiscriminant(node_type)),
                  PatternCode(node_type[2]))
    ELSE WriteInt(state, NodeTypeDiscriminant(node_type))

RECURSIVE hash_elements(_, _)
\* Hash for Vec<u64>: the length, then the elements.
hash_elements(state, elements) ==
    IF elements = <<>> THEN state
    ELSE hash_elements(WriteInt(state, Head(elements)), Tail(elements))

hash_children_list(state, children) ==
    hash_elements(WriteInt(state, Len(children)), children)

RECURSIVE BytesLess(_, _)
\* Ord for str: byte-wise lexicographic order.
BytesLess(a, b) ==
    IF b = <<>> THEN FALSE
    ELSE IF a = <<>> THEN TRUE
    ELSE IF Head(a) # Head(b) THEN Head(a) < Head(b)
    ELSE BytesLess(Tail(a), Tail(b))

StrLess(a, b) == BytesLess(AsBytes(a), AsBytes(b))

RECURSIVE insert_sorted(_, _)
\* One step of the stable sort: key k goes after the keys not greater than it.
insert_sorted(sorted, k) ==
    IF sorted = <<>> THEN <<k>>
    ELSE IF StrLess(k, Head(sorted)) THEN <<k>> \o sorted
    ELSE <<Head(sorted)>> \o insert_sorted(Tail(sorted), k)

\* sort_by_key left out: the keys stay in the order the map iterated in.
sort_by_key_as_iterated(keys) == keys

RECURSIVE sort_by_key(_)
\* sorted_metadata.sort_by_key(|(k, _)| *k), on the keys of the entries.
sort_by_key(keys) ==
    IF keys = <<>> THEN <<>>
    ELSE insert_sorted(sort_by_key(SubSeq(keys, 1, Len(keys) - 1)), keys[Len(keys)])

RECURSIVE hash_metadata(_, _, _)
\* The loop `for (k, v) in sorted_metadata`.
hash_metadata(state, metadata, keys) ==
    IF keys = <<>> THEN state
    ELSE hash_metadata(WriteStr(WriteStr(state, Head(keys)), metadata[Head(keys)]),
                       metadata, Tail(keys))

\* fn hash(&self, state) of SemanticNode; metadata_iter is the order
\* self.metadata.iter() yields the entries in.
hash_node(node, metadata_iter) ==
    LET s1 == WriteInt(<<>>, node.id)
        s2 == hash_node_type(s1, node.node_type)
        s3 == hash_children_list(s2, node.children)
        s4 == hash_metadata(s3, node.metadata, sort_by_key(metadata_iter))
        s5 == WriteStr(s4, node.language)
    IN  WriteInt(s5, node.pattern_hash)

----------------------------------------------------------------------------
(* Pattern detector.                                                       *)

Contains(seq, x) == \E i \in 1..Len(seq) : seq[i] = x

RECURSIVE has_recursive_structure(_, _, _)
RECURSIVE any_child_recursive(_, _, _, _)

\* has_recursive_structure with a revisited id taken as already explored:
\* it answers false where the code answers true.
has_recursive_structure_skips_visited(g, node_id, visited) ==
    IF Contains(visited, node_id)
    THEN [result |-> FALSE, visited |-> visited]
    ELSE LET pushed == Append(visited, node_id)
         IN  IF node_id \in DOMAIN g.nodes
             THEN any_child_recursive(g, g.nodes[node_id].children, 1, pushed)
             ELSE [result |-> FALSE, visited |-> pushed]

\* has_recursive_structure with visited popped on return: it holds the ids
\* on the way down to the current call and no others.
has_recursive_structure_on_stack(g, node_id, visited) ==
    IF Contains(visited, node_id)
    THEN [result |-> TRUE, visited |-> visited]
    ELSE IF node_id \in DOMAIN g.nodes
         THEN [result |-> any_child_recursive(g, g.nodes[node_id].children, 1,
                                              Append(visited, node_id)).result,
               visited |-> visited]
         ELSE [result |-> FALSE, visited |-> visited]

\* fn has_recursive_structure(&self, node_id, visited: &mut Vec<u64>) -> bool.
\* The result carries the list `visited` as the call leaves it.
has_recursive_structure(g, node_id, visited) ==
    IF Contains(visited, node_id)
    THEN [result |-> TRUE, visited |-> visited]
    ELSE LET pushed == Append(visited, node_id)
         IN  IF node_id \in DOMAIN g.nodes
             THEN any_child_recursive(g, g.nodes[node_id].children, 1, pushed)
             ELSE [result |-> FALSE, visited |-> pushed]

\* The loop `for &child_id in &node.children` of has_recursive_structure,
\* from the i-th child on.
any_child_recursive(g, children, i, visited) ==
    IF i > Len(children)
    THEN [result |-> FALSE, visited |-> visited]
    ELSE LET r == has_recursive_structure(g, children[i], visited)
         IN  IF r.result THEN r
             ELSE any_child_recursive(g, children, i + 1, r.visited)

\* analyze_node_pattern with the Function arm taken from one child on.
analyze_node_pattern_one_child(g, node) ==
    CASE node.node_type = Function /\ Len(node.children) >= 1 ->
            IF has_recursive_structure(g, node.id, <<>>).result
            THEN <<"FibonacciLike">>
            ELSE IF "operation" \in DOMAIN node.metadata
                    /\ node.metadata["operation"] = "map_reduce"
                 THEN <<"MapReduce">>
                 ELSE <<>>
      [] node.node_type = ControlFlow /\ Len(node.children) > 3 -> <<"MapReduce">>
      [] node.node_type[1] = "Pattern" -> <<node.node_type[2]>>
      [] OTHER -> <<>>

\* analyze_node_pattern with the ControlFlow arm taken from three children on.
analyze_node_pattern_three_children(g, node) ==
    CASE node.node_type = Function /\ Len(node.children) >= 2 ->
            IF has_recursive_structure(g, node.id, <<>>).result
            THEN <<"FibonacciLike">>
            ELSE IF "operation" \in DOMAIN node.metadata
                    /\ node.metadata["operation"] = "map_reduce"
                 THEN <<"MapReduce">>
                 ELSE <<>>
      [] node.node_type = ControlFlow /\ Len(node.children) >= 3 -> <<"MapReduce">>
      [] node.node_type[1] = "Pattern" -> <<node.node_type[2]>>
      [] OTHER -> <<>>

\* analyze_node_pattern with the metadata looked at before the recursion.
analyze_node_pattern_metadata_first(g, node) ==
    CASE node.node_type = Function /\ Len(node.children) >= 2 ->
            IF "operation" \in DOMAIN node.metadata
               /\ node.metadata["operation"] = "map_reduce"
            THEN <<"MapReduce">>
            ELSE IF has_recursive_structure(g, node.id, <<>>).result
                 THEN <<"FibonacciLike">>
                 ELSE <<>>
      [] node.node_type = ControlFlow /\ Len(node.children) > 3 -> <<"MapReduce">>
      [] node.node_type[1] = "Pattern" -> <<node.node_type[2]>>
      [] OTHER -> <<>>

\* analyze_node_pattern with the Pattern arm taken by childless nodes only.
analyze_node_pattern_childless_pattern(g, node) ==
    CASE node.node_type = Function /\ Len(node.children) >= 2 ->
            IF has_recursive_structure(g, node.id, <<>>).result
            THEN <<"FibonacciLike">>
            ELSE IF "operation" \in DOMAIN node.metadata
                    /\ node.metadata["operation"] = "map_reduce"
                 THEN <<"MapReduce">>
                 ELSE <<>>
      [] node.node_type = ControlFlow /\ Len(node.children) > 3 -> <<"MapReduce">>
      [] node.node_type[1] = "Pattern" /\ node.children = <<>> -> <<node.node_type[2]>>
      [] OTHER -> <<>>

\* analyze_node_pattern with Loop nodes classified like ControlFlow nodes.
analyze_node_pattern_loop_arm(g, node) ==
    CASE node.node_type = Function /\ Len(node.children) >= 2 ->
            IF has_recursive_structure(g, node.id, <<>>).result
            THEN <<"FibonacciLike">>
            ELSE IF "operation" \in DOMAIN node.metadata
                    /\ node.metadata["operation"] = "map_reduce"
                 THEN <<"MapReduce">>
                 ELSE <<>>
      [] node.node_type = ControlFlow /\ Len(node.children) > 3 -> <<"MapReduce">>
      [] node.node_type = Loop /\ Len(node.children) > 3 -> <<"MapReduce">>
      [] node.node_type[1] = "Pattern" -> <<node.node_type[2]>>
      [] OTHER -> <<>>

\* fn analyze_node_pattern(&self, node) -> Option<PatternType>.
analyze_node_pattern(g, node) ==
    CASE node.node_type = Function /\ Len(node.children) >= 2 ->
            IF has_recursive_structure(g, node.id, <<>>).result
            THEN <<"FibonacciLike">>
            ELSE IF "operation" \in DOMAIN node.metadata
                    /\ node.metadata["operation"] = "map_reduce"
                 THEN <<"MapReduce">>
                 ELSE <<>>
      [] node.node_type = ControlFlow /\ Len(node.children) > 3 -> <<"MapReduce">>
      [] node.node_type[1] = "Pattern" -> <<node.node_type[2]>>
      [] OTHER -> <<>>

\* CachePush that leaves the bucket alone when it already holds the id.
CachePushOnce(cache, code, node_id) ==
    IF code \in DOMAIN cache /\ Contains(cache[code], node_id) THEN cache
    ELSE MapInsert(cache, code,
                   Append(IF code \in DOMAIN cache THEN cache[code] ELSE <<>>, node_id))

\* pattern_cache.entry(code).or_insert_with(Vec::new).push(node_id).
CachePush(cache, code, node_id) ==
    MapInsert(cache, code,
              Append(IF code \in DOMAIN cache THEN cache[code] ELSE <<>>, node_id))

RECURSIVE detect_loop(_, _, _)
RECURSIVE detect_loop_stops_at_unclassified(_, _, _)

\* detect_loop leaving the loop at the first node that no rule classifies.
detect_loop_stops_at_unclassified(g, node_ids, cache) ==
    IF node_ids = <<>> THEN cache
    ELSE LET node_id == Head(node_ids)
             pattern == IF node_id \in DOMAIN g.nodes
                        THEN analyze_node_pattern(g, g.nodes[node_id])
                        ELSE <<>>
         IN  IF pattern = <<>> THEN cache
             ELSE detect_loop_stops_at_unclassified(g, Tail(node_ids),
                      CachePush(cache, PatternCode(pattern[1]), node_id))

\* The loop `for node_id in node_ids` of detect_patterns over what is left
\* of node_ids; nodes does not change while it runs.
detect_loop(g, node_ids, cache) ==
    IF node_ids = <<>> THEN cache
    ELSE LET node_id == Head(node_ids)
             pattern == IF node_id \in DOMAIN g.nodes
                        THEN analyze_node_pattern(g, g.nodes[node_id])
                        ELSE <<>>
         IN  detect_loop(g, Tail(node_ids),
                         IF pattern = <<>> THEN cache
                         ELSE CachePush(cache, PatternCode(pattern[1]), node_id))

\* self.nodes.keys().cloned().collect(): every key once, in the order the
\* HashMap happens to iterate, which is any order.
KeyOrders(m) ==
    {s \in [1..Cardinality(DOMAIN m) -> DOMAIN m] :
        \A i, j \in 1..Cardinality(DOMAIN m) : s[i] = s[j] => i = j}

----------------------------------------------------------------------------
(* Semantic hasher.                                                        *)

\* blake3::Hasher::new(): nothing fed yet.  `returns` turns FALSE when the
\* walk that feeds the hasher cannot return.
NewHasher == [fed |-> <<>>, returns |-> TRUE]

\* Hasher::update(bytes): the bytes are appended to what was fed.
Update(hasher, bytes) == [hasher EXCEPT !.fed = @ \o bytes]

RECURSIVE hash_node_tree(_, _, _, _)
RECURSIVE hash_children(_, _, _, _, _)
RECURSIVE hash_children_reversed(_, _, _, _, _)
RECURSIVE hash_roots(_, _, _)

\* feed_node with the node's id fed in place of its pattern_hash.
feed_node_id(hasher, node) == Update(hasher, ToLeBytes(node.id))

\* feed_node with the number of children fed after the pattern_hash.
feed_node_and_arity(hasher, node) ==
    Update(Update(hasher, ToLeBytes(node.pattern_hash)), ToLeBytes(Len(node.children)))

\* hasher.update(&node.pattern_hash.to_le_bytes()) of hash_node_tree.
feed_node(hasher, node) == Update(hasher, ToLeBytes(node.pattern_hash))

\* hash_node_tree with a bound on the depth of the walk: below the bound it
\* returns without descending further.
hash_node_tree_bounded(g, hasher, node_id, depth) ==
    IF ~hasher.returns \/ node_id \notin DOMAIN g.nodes THEN hasher
    ELSE IF depth > Cardinality(DOMAIN g.nodes) THEN hasher
         ELSE hash_children(g, feed_node(hasher, g.nodes[node_id]),
                            g.nodes[node_id].children, 1, depth)

\* fn hash_node_tree(&self, hasher, node_id).  depth is the number of frames
\* of hash_node_tree on the call stack that stand on a node of the graph,
\* this one included.  The code has no guard: once there are more such
\* frames than nodes, one node is below itself on the stack, the same calls
\* repeat without end and the call never returns.
hash_node_tree(g, hasher, node_id, depth) ==
    IF ~hasher.returns \/ node_id \notin DOMAIN g.nodes THEN hasher
    ELSE IF depth > Cardinality(DOMAIN g.nodes)
         THEN [hasher EXCEPT !.returns = FALSE]
         ELSE hash_children(g, feed_node(hasher, g.nodes[node_id]),
                            g.nodes[node_id].children, 1, depth)

\* hash_children walking the children from the last to the first.
hash_children_reversed(g, hasher, children, i, depth) ==
    IF i > Len(children) \/ ~hasher.returns THEN hasher
    ELSE hash_children_reversed(g,
             hash_node_tree(g, hasher, children[Len(children) + 1 - i], depth + 1),
             children, i + 1, depth)

\* The loop `for &child_id in &node.children` of hash_node_tree, from the
\* i-th child on.
hash_children(g, hasher, children, i, depth) ==
    IF i > Len(children) \/ ~hasher.returns THEN hasher
    ELSE hash_children(g, hash_node_tree(g, hasher, children[i], depth + 1),
                       children, i + 1, depth)

\* feed_root with the graph's language fed in place of the node's.
feed_root_graph_language(g, hasher, node) ==
    Update(Update(hasher, ToLeBytes(node.id)), AsBytes(g.language))

\* feed_root without the update that feeds the node's id.
feed_root_no_id(g, hasher, node) == Update(hasher, AsBytes(node.language))

\* feed_root without the update that feeds the node's language.
feed_root_no_language(g, hasher, node) == Update(hasher, ToLeBytes(node.id))

\* The updates for a root, followed by the number of buckets of the cache.
feed_root_and_cache(g, hasher, node) ==
    Update(Update(Update(hasher, ToLeBytes(node.id)), AsBytes(node.language)),
           ToLeBytes(Cardinality(DOMAIN g.pattern_cache)))

\* The two updates calculate_semantic_hash makes for a root it finds:
\* hasher.update(&node.id.to_le_bytes()); hasher.update(node.language.as_bytes()).
feed_root(g, hasher, node) ==
    Update(Update(hasher, ToLeBytes(node.id)), AsBytes(node.language))

\* The loop `for node_id in &self.root_nodes` of calculate_semantic_hash,
\* from the i-th root on.
hash_roots(g, hasher, i) ==
    IF i > Len(g.root_nodes) \/ ~hasher.returns THEN hasher
    ELSE LET node_id == g.root_nodes[i]
         IN  IF node_id \in DOMAIN g.nodes
             THEN hash_roots(g,
                      hash_node_tree(g, feed_root(g, hasher, g.nodes[node_id]),
                                     node_id, 1),
                      i + 1)
             ELSE hash_roots(g, hasher, i + 1)

\* fn calculate_semantic_hash(&self) -> u64, up to the digest: the state of
\* the hasher when finalize() is called.  The u64 returned is the first
\* eight bytes of the BLAKE3 digest of `fed`.
calculate_semantic_hash(g) == hash_roots(g, NewHasher, 1)

----------------------------------------------------------------------------
(* Pattern recognizer (pattern_recognizer.rs).  Its PatternType is the     *)
(* enum of lib.rs, not the detector's; a kind is known by its name.        *)

\* enum PatternType of lib.rs, in declaration order.
RecognizerPatternTypes ==
    <<"FibonacciLike", "MapReduce", "IteratorChain", "Builder", "RecursiveTree",
      "WebEndpoint", "Cacheable", "DataProcessing", "ConcurrentTasks",
      "MathematicalComputation", "StringProcessing", "FileIO", "NetworkRequest",
      "DatabaseQuery", "DataProcessor">>

\* PatternRecognizer::new(): the registry `patterns`.
patterns ==
    [rust |-> <<"IteratorChain", "Builder", "FibonacciLike">>,
     python |-> <<"MapReduce", "DataProcessor", "RecursiveTree">>,
     javascript |-> <<"WebEndpoint", "MapReduce", "Cacheable">>]

\* hash_to_pattern without the reduction modulo 7: codes above 5 all fall
\* in the last arm.
hash_to_pattern_no_wrap(hash) ==
    CASE hash = 0 -> "FibonacciLike"
      [] hash = 1 -> "MapReduce"
      [] hash = 2 -> "IteratorChain"
      [] hash = 3 -> "Builder"
      [] hash = 4 -> "RecursiveTree"
      [] hash = 5 -> "WebEndpoint"
      [] OTHER -> "Cacheable"

\* fn hash_to_pattern(&self, hash: u64) -> PatternType.
hash_to_pattern(hash) ==
    CASE hash % 7 = 0 -> "FibonacciLike"
      [] hash % 7 = 1 -> "MapReduce"
      [] hash % 7 = 2 -> "IteratorChain"
      [] hash % 7 = 3 -> "Builder"
      [] hash % 7 = 4 -> "RecursiveTree"
      [] hash % 7 = 5 -> "WebEndpoint"
      [] OTHER -> "Cacheable"

\* struct CrossLanguagePattern.  semantic_hash is what the hasher was fed,
\* as for calculate_semantic_hash.
CrossLanguagePattern(pattern_type, lang, node_count, semantic_hash) ==
    [pattern_type |-> pattern_type, language |-> lang,
     node_count |-> node_count, semantic_hash |-> semantic_hash]

\* Vec::new() as cross_patterns; `returns` turns FALSE when a call made
\* while filling it cannot return.
NoMatches == [matches |-> <<>>, returns |-> TRUE]

\* The body of `for (pattern_hash, node_ids) in &graph.pattern_cache` for
\* one entry.
recognize_entry(graph, pattern_hash, acc) ==
    LET pattern_type == hash_to_pattern(pattern_hash)
    IN  IF graph.language \in DOMAIN patterns
           /\ Contains(patterns[graph.language], pattern_type)
        THEN LET hasher == calculate_semantic_hash(graph)
             IN  IF hasher.returns
                 THEN [acc EXCEPT !.matches =
                          Append(@, CrossLanguagePattern(pattern_type, graph.language,
                                        Len(graph.pattern_cache[pattern_hash]), hasher.fed))]
                 ELSE [acc EXCEPT !.returns = FALSE]
        ELSE acc

RECURSIVE recognize_entries(_, _, _)
\* The loop over the entries of graph.pattern_cache, in the order
\* pattern_hashes the HashMap iterates in.
recognize_entries(graph, pattern_hashes, acc) ==
    IF pattern_hashes = <<>> \/ ~acc.returns THEN acc
    ELSE recognize_entries(graph, Tail(pattern_hashes),
                           recognize_entry(graph, Head(pattern_hashes), acc))

RECURSIVE recognize_graphs(_, _, _, _)
\* The loop `for graph in graphs`, from the i-th graph on; orders[i] is the
\* order the cache of the i-th graph iterates in.
recognize_graphs(graphs, orders, i, acc) ==
    IF i > Len(graphs) \/ ~acc.returns THEN acc
    ELSE IF graphs[i].language \notin DOMAIN patterns
         THEN recognize_graphs(graphs, orders, i + 1, acc)
         ELSE recognize_graphs(graphs, orders, i + 1,
                               recognize_entries(graphs[i], orders[i], acc))

\* fn recognize_cross_language_patterns(&self, graphs) -> Vec<CrossLanguagePattern>.
recognize_cross_language_patterns(graphs, orders) ==
    recognize_graphs(graphs, orders, 1, NoMatches)

\* The orders the caches of the graphs can iterate in, one for each graph.
CacheOrders(graphs) ==
    {orders \in [1..Len(graphs) ->
                    UNION {KeyOrders(graphs[i].pattern_cache) : i \in 1..Len(graphs)}] :
        \A i \in 1..Len(graphs) : orders[i] \in KeyOrders(graphs[i].pattern_cache)}

\* language_scores with every registered language entered, whether its list
\* holds the pattern or not.
language_scores_of_all(pattern) == [lang \in DOMAIN patterns |-> Len(patterns[lang])]

\* The map language_scores that suggest_optimal_language fills: each
\* language whose list contains the pattern, with the length of its list.
language_scores(pattern) ==
    [lang \in {l \in DOMAIN patterns : Contains(patterns[l], pattern)} |->
        Len(patterns[lang])]

RECURSIVE max_by_key(_, _, _)
\* Iterator::max_by_key over the entries of scores in the order langs, best
\* being the maximum so far: of several equal maxima the last one is kept.
max_by_key(scores, langs, best) ==
    IF langs = <<>> THEN best
    ELSE max_by_key(scores, Tail(langs),
                    IF best = <<>> \/ scores[Head(langs)] >= scores[best[1]]
                    THEN <<Head(langs)>>
                    ELSE best)

\* fn suggest_optimal_language(&self, pattern) -> Option<String>; langs is
\* the order language_scores.into_iter() yields its entries in.
suggest_optimal_language(pattern, langs) ==
    max_by_key(language_scores(pattern), langs, <<>>)

\* fn get_supported_languages(&self) -> Vec<String>; langs is the order
\* patterns.keys() yields the keys in.
get_supported_languages(langs) == langs

----------------------------------------------------------------------------
(* Cross-language analyzer (cross_language_patterns.rs).                   *)

\* get_optimal_language without the IteratorChain arm.
get_optimal_language_five_arms(pattern) ==
    CASE pattern = "FibonacciLike" -> <<"rust">>
      [] pattern = "MapReduce" -> <<"python">>
      [] pattern = "WebEndpoint" -> <<"typescript">>
      [] pattern = "DatabaseQuery" -> <<"rust">>
      [] pattern = "DataProcessor" -> <<"python">>
      [] OTHER -> <<>>

\* fn get_optimal_language(&self, pattern: &PatternType) -> Option<String>.
get_optimal_language(pattern) ==
    CASE pattern = "FibonacciLike" -> <<"rust">>
      [] pattern = "MapReduce" -> <<"python">>
      [] pattern = "IteratorChain" -> <<"rust">>
      [] pattern = "WebEndpoint" -> <<"typescript">>
      [] pattern = "DatabaseQuery" -> <<"rust">>
      [] pattern = "DataProcessor" -> <<"python">>
      [] OTHER -> <<>>

----------------------------------------------------------------------------
(* The async examples of parflow-core on the tokio runtime.                *)

\* The clock is counted in ticks of 50 ms.
TickMillis == 50

\* Duration::from_millis(ms), in ticks.
from_millis(ms) == ms \div TickMillis

\* The two async blocks of run_example_par and run_example_seq: how long
\* each sleeps and what it evaluates to.
Block ==
    [h \in {1, 2} |-> IF h = 1 THEN [sleep |-> from_millis(100), value |-> 1]
                                ELSE [sleep |-> from_millis(50), value |-> 2]]

NoTasks == [h \in {} |-> 0]

\* The state before anything is awaited: the clock at 0, no task spawned,
\* the caller idle with neither result.
NoTasksSpawned ==
    /\ now = 0
    /\ tasks = NoTasks
    /\ caller = [pc |-> "idle", results |-> <<>>, deadline |-> 0, p |-> <<>>, s |-> <<>>]

\* Awaiting join handle `handle` as a select over the tasks: it is ready
\* when `handle` tasks have finished and yields the output of the task that
\* finished in that place.
join_in_completion_order(ts, handle) ==
    LET done == {h \in DOMAIN ts : ts[h].state = "finished"}
        Before(a, b) == \/ ts[a].finished_at < ts[b].finished_at
                        \/ ts[a].finished_at = ts[b].finished_at /\ a < b
    IN  IF Cardinality(done) < handle THEN [ready |-> FALSE, output |-> 0]
        ELSE [ready |-> TRUE,
              output |-> ts[CHOOSE h \in done :
                               Cardinality({k \in done : Before(k, h)}) = handle - 1].output]

\* JoinHandle::poll for `handle`: ready when that task has finished, with
\* the task's output.
join(ts, handle) ==
    IF handle \in DOMAIN ts /\ ts[handle].state = "finished"
    THEN [ready |-> TRUE, output |-> ts[handle].output]
    ELSE [ready |-> FALSE, output |-> 0]

----------------------------------------------------------------------------
(* The graph as a state machine.                                           *)

\* A call that does not return ends the thread that made it.
Running == ret.returns

\* SemanticGraph::new(language).
New(lang) ==
    /\ nodes = EmptyMap
    /\ root_nodes = <<>>
    /\ pattern_cache = EmptyMap
    /\ language = lang
    /\ ret = Returned("new", <<>>)
    /\ detect_calls = 0

\* add_node that empties the pattern cache as it changes the nodes.
AddNodeInvalidating(node) ==
    /\ Running
    /\ nodes' = MapInsert(nodes, node.id, node)
    /\ pattern_cache' = EmptyMap
    /\ ret' = Returned("add_node", <<node.id>>)
    /\ UNCHANGED <<root_nodes, language, detect_calls, now, tasks, caller>>

\* SemanticGraph::add_node(node) -> u64.
AddNode(node) ==
    /\ Running
    /\ nodes' = MapInsert(nodes, node.id, node)
    /\ ret' = Returned("add_node", <<node.id>>)
    /\ UNCHANGED <<root_nodes, pattern_cache, language, detect_calls, now, tasks, caller>>

\* graph.root_nodes.push(id): root registration by the caller.
AddRoot(id) ==
    /\ Running
    /\ Len(root_nodes) < MaxRoots
    /\ root_nodes' = Append(root_nodes, id)
    /\ ret' = Returned("push_root", <<>>)
    /\ UNCHANGED <<nodes, pattern_cache, language, detect_calls, now, tasks, caller>>

\* SemanticGraph::detect_patterns(), called at most limit times on one graph.
DetectPatternsUpTo(limit) ==
    /\ Running
    /\ detect_calls < limit
    /\ \E node_ids \in KeyOrders(nodes) :
          pattern_cache' = detect_loop(Self, node_ids, pattern_cache)
    /\ detect_calls' = detect_calls + 1
    /\ ret' = Returned("detect_patterns", <<>>)
    /\ UNCHANGED <<nodes, root_nodes, language, now, tasks, caller>>

DetectPatterns == DetectPatternsUpTo(MaxDetect)

\* SemanticGraph::calculate_semantic_hash().
CalculateSemanticHash ==
    /\ Running
    /\ LET hasher == calculate_semantic_hash(Self)
       IN  ret' = IF hasher.returns
                  THEN Returned("calculate_semantic_hash", hasher.fed)
                  ELSE NoReturn("calculate_semantic_hash")
    /\ UNCHANGED <<nodes, root_nodes, pattern_cache, language, detect_calls, now, tasks, caller>>

\* PatternRecognizer::recognize_cross_language_patterns(graphs), on a list
\* of graphs that are this graph or others the caller holds.
RecognizeCrossLanguagePatterns(graphs) ==
    /\ Running
    /\ \E orders \in CacheOrders(graphs) :
          LET acc == recognize_cross_language_patterns(graphs, orders)
          IN  ret' = IF acc.returns
                     THEN Returned("recognize_cross_language_patterns", acc.matches)
                     ELSE NoReturn("recognize_cross_language_patterns")
    /\ UNCHANGED <<nodes, root_nodes, pattern_cache, language, detect_calls, now, tasks, caller>>

\* PatternRecognizer::suggest_optimal_language(pattern).
SuggestOptimalLanguage(pattern) ==
    /\ Running
    /\ \E langs \in KeyOrders(language_scores(pattern)) :
          ret' = Returned("suggest_optimal_language",
                          suggest_optimal_language(pattern, langs))
    /\ UNCHANGED <<nodes, root_nodes, pattern_cache, language, detect_calls, now, tasks, caller>>

\* PatternRecognizer::get_supported_languages().
GetSupportedLanguages ==
    /\ Running
    /\ \E langs \in KeyOrders(patterns) :
          ret' = Returned("get_supported_languages", get_supported_languages(langs))
    /\ UNCHANGED <<nodes, root_nodes, pattern_cache, language, detect_calls, now, tasks, caller>>

\* CrossLanguageAnalyzer::get_optimal_language(pattern).
GetOptimalLanguage(pattern) ==
    /\ Running
    /\ ret' = Returned("get_optimal_language", get_optimal_language(pattern))
    /\ UNCHANGED <<nodes, root_nodes, pattern_cache, language, detect_calls, now, tasks, caller>>

\* SemanticNode::hash(state) on the node stored under id.
HashNode(id) ==
    /\ Running
    /\ id \in DOMAIN nodes
    /\ \E metadata_iter \in KeyOrders(nodes[id].metadata) :
          ret' = Returned("hash", hash_node(nodes[id], metadata_iter))
    /\ UNCHANGED <<nodes, root_nodes, pattern_cache, language, detect_calls, now, tasks, caller>>


\* The graph is left as it is by the async examples.
GraphUnchanged == UNCHANGED <<nodes, root_nodes, pattern_cache, language, detect_calls>>

\* The runtime's clock advances.
Tick ==
    /\ now < MaxTicks
    /\ now' = now + 1
    /\ UNCHANGED <<tasks, caller, ret>>
    /\ GraphUnchanged

\* A call of run_example_par is awaited (handle_par, test_par).
CallPar ==
    /\ caller.pc = "idle"
    /\ caller.p = <<>>
    /\ caller' = [caller EXCEPT !.pc = "spawn1", !.results = <<>>]
    /\ UNCHANGED <<now, tasks, ret>>
    /\ GraphUnchanged

\* let result1 = tokio::spawn(..); let result2 = tokio::spawn(..): the task
\* is handed to the runtime, which polls it when it chooses.
Spawn(handle) ==
    /\ caller.pc = IF handle = 1 THEN "spawn1" ELSE "spawn2"
    /\ tasks' = MapInsert(tasks, handle,
                    [state |-> "spawned", deadline |-> 0, output |-> 0, finished_at |-> 0])
    /\ caller' = [caller EXCEPT !.pc = IF handle = 1 THEN "spawn2" ELSE "await1"]
    /\ UNCHANGED <<now, ret>>
    /\ GraphUnchanged

\* The runtime polls a spawned task for the first time: the block runs to
\* sleep(duration).await, whose deadline is counted from this instant.
TaskStart(handle) ==
    /\ handle \in DOMAIN tasks
    /\ tasks[handle].state = "spawned"
    /\ tasks' = [tasks EXCEPT ![handle].state = "sleeping",
                              ![handle].deadline = now + Block[handle].sleep]
    /\ UNCHANGED <<now, caller, ret>>
    /\ GraphUnchanged

\* The runtime polls a sleeping task at or after its deadline: the block
\* evaluates to its value and the task finishes.
TaskFinish(handle) ==
    /\ handle \in DOMAIN tasks
    /\ tasks[handle].state = "sleeping"
    /\ now >= tasks[handle].deadline
    /\ tasks' = [tasks EXCEPT ![handle].state = "finished",
                              ![handle].output = Block[handle].value,
                              ![handle].finished_at = now]
    /\ UNCHANGED <<now, caller, ret>>
    /\ GraphUnchanged

\* result1.await.unwrap(), the first element of the vec! of line 29.
AwaitResult1 ==
    /\ caller.pc = "await1"
    /\ join(tasks, 1).ready
    /\ caller' = [caller EXCEPT !.pc = "await2",
                                !.results = <<join(tasks, 1).output>>]
    /\ UNCHANGED <<now, tasks, ret>>
    /\ GraphUnchanged

\* result2.await.unwrap(), the second element; run_example_par returns the
\* vector.
AwaitResult2 ==
    /\ caller.pc = "await2"
    /\ join(tasks, 2).ready
    /\ LET vec == Append(caller.results, join(tasks, 2).output)
       IN  /\ caller' = [caller EXCEPT !.pc = "idle", !.results = <<>>, !.p = vec]
           /\ ret' = Returned("run_example_par", vec)
    /\ UNCHANGED <<now, tasks>>
    /\ GraphUnchanged

\* A call of run_example_seq is awaited (handle_seq, test_seq): the first
\* block runs to its sleep.
CallSeq ==
    /\ caller.pc = "idle"
    /\ caller.s = <<>>
    /\ caller' = [caller EXCEPT !.pc = "sleep1", !.results = <<>>,
                                !.deadline = now + Block[1].sleep]
    /\ UNCHANGED <<now, tasks, ret>>
    /\ GraphUnchanged

\* The first sleep is over: result1 is the block's value and the second
\* block runs to its sleep.
SeqResult1 ==
    /\ caller.pc = "sleep1"
    /\ now >= caller.deadline
    /\ caller' = [caller EXCEPT !.pc = "sleep2", !.results = <<Block[1].value>>,
                                !.deadline = now + Block[2].sleep]
    /\ UNCHANGED <<now, tasks, ret>>
    /\ GraphUnchanged

\* The second sleep is over: run_example_seq returns vec![result1, result2].
SeqResult2 ==
    /\ caller.pc = "sleep2"
    /\ now >= caller.deadline
    /\ LET vec == Append(caller.results, Block[2].value)
       IN  /\ caller' = [caller EXCEPT !.pc = "idle", !.results = <<>>, !.s = vec]
           /\ ret' = Returned("run_example_seq", vec)
    /\ UNCHANGED <<now, tasks>>
    /\ GraphUnchanged

----------------------------------------------------------------------------
(* Callers.                                                                *)

\* A caller that builds graphs to fingerprint them: three nodes that are
\* leaves, links of a chain or of a cycle (<<1>> on node 1 is a self-loop),
\* parents of a shared child (3 under <<2, 3>> and <<3, 4>>) or of the id 4
\* that no node carries.
HashIds == {1, 2, 3}

HashChildLists == {<<>>, <<1>>, <<2>>, <<2, 3>>, <<3, 4>>}

HashNodes ==
    {SemanticNode(id, Function, c, NoMetadata, lp[1], lp[2]) :
        id \in HashIds, c \in HashChildLists,
        lp \in {<<"rust", 7>>, <<"python", 258>>}}

\* A caller that builds graphs to detect patterns in them: two nodes, with
\* children among themselves and the ids 3, 4, 5 that no node carries.
DetectIds == {1, 2}

DetectNodes ==
    {SemanticNode(id, Function, c, NoMetadata, "python", 7) :
        id \in DetectIds,
        c \in {<<>>, <<1>>, <<2>>, <<2, 1>>, <<2, 2>>, <<2, 3>>, <<3, 4>>}}
    \cup
    {SemanticNode(id, ControlFlow, c, NoMetadata, "python", 7) :
        id \in DetectIds, c \in {<<1, 2>>, <<2, 3, 4>>, <<2, 3, 4, 5>>}}

GraphLanguages == {"rust", "python"}

Init == NoTasksSpawned /\ \E lang \in GraphLanguages : New(lang)

Next ==
    \/ \E node \in DetectNodes : AddNode(node)
    \/ \E id \in {1} : AddRoot(id)
    \/ DetectPatterns
    \/ CalculateSemanticHash

Spec == Init /\ [][Next]_vars

NextHash ==
    \/ \E node \in HashNodes : AddNode(node)
    \/ \E id \in HashIds : AddRoot(id)
    \/ CalculateSemanticHash

InitHash == New("rust") /\ NoTasksSpawned

SpecHash == InitHash /\ [][NextHash]_vars

\* A caller that builds a graph and then runs detection on it: every
\* add_node comes before the first detect_patterns.  Its nodes are Function
\* nodes with one or two children (<<1>> on node 1 and <<2>> on node 2 are
\* self-loops, 3 and 4 are ids no node carries) with and without the
\* "operation" annotation, and nodes pre-tagged with each pattern kind.
OtherMetadata == [k \in {"operation"} |-> "filter"]

ClassifyIds == {1, 2}

ClassifyNodes ==
    {SemanticNode(id, Function, c, m, "python", 7) :
        id \in ClassifyIds,
        c \in {<<1>>, <<2>>, <<1, 2>>, <<3, 4>>},
        m \in {NoMetadata, MapReduceMetadata, OtherMetadata}}
    \cup
    {SemanticNode(id, Pattern(p), v[1], v[2], v[3], 7) :
        id \in ClassifyIds, p \in PatternTypeSet,
        v \in {<<(<<>>), NoMetadata, "python">>,
                <<(<<1, 2, 3, 4>>), MapReduceMetadata, "rust">>}}

InitDetect == New("python") /\ NoTasksSpawned

NextDetect ==
    \/ \E node \in ClassifyNodes : detect_calls = 0 /\ AddNode(node)
    \/ DetectPatternsUpTo(MaxRepeat)

SpecDetect == InitDetect /\ [][NextDetect]_vars

\* A caller that builds a graph in one of four languages ("go" is in no
\* registry), runs detection on it, now and then replaces node 1 by a
\* Variable node that no rule classifies, and hands it to the recognizer,
\* alone or next to a python graph of its own.  Node 1 is pre-tagged with
\* any pattern kind, childless or its own child; node 2 is pre-tagged, with
\* the child 3 that no node carries or none.
RecognizeLanguages == {"rust", "python", "javascript", "go"}

VariableNode == SemanticNode(1, Variable, <<>>, NoMetadata, "python", 7)

RecognizeNodes ==
    {SemanticNode(1, Pattern(p), c, NoMetadata, "python", 7) :
        p \in PatternTypeSet, c \in {<<>>, <<1>>}}
    \cup
    {VariableNode,
     SemanticNode(2, Pattern("FibonacciLike"), <<3>>, NoMetadata, "python", 258),
     SemanticNode(2, Pattern("MapReduce"), <<>>, NoMetadata, "python", 258)}

\* The caller's python graph: one pre-tagged node, registered as a root,
\* detection run once.
python_graph ==
    LET node == SemanticNode(1, Pattern("MapReduce"), <<>>, NoMetadata, "python", 258)
        built == Graph(MapInsert(EmptyMap, 1, node), <<1>>, EmptyMap, "python")
    IN  [built EXCEPT !.pattern_cache = detect_loop(built, <<1>>, EmptyMap)]

\* The lists of graphs the caller hands to the recognizer.
GraphLists == {<<>>, <<Self>>, <<python_graph, Self>>, <<Self, python_graph>>}

InitRecognize == NoTasksSpawned /\ \E lang \in RecognizeLanguages : New(lang)

NextRecognize ==
    \/ \E node \in RecognizeNodes :
          (detect_calls = 0 \/ node = VariableNode) /\ AddNode(node)
    \/ \E id \in {1} : AddRoot(id)
    \/ DetectPatternsUpTo(MaxRepeat)
    \/ \E graphs \in GraphLists : RecognizeCrossLanguagePatterns(graphs)

SpecRecognize == InitRecognize /\ [][NextRecognize]_vars

\* A caller that builds a python graph, runs detection on it once and asks
\* the recognizer and the analyzer which language suits a pattern kind, for
\* any kind of the enum of lib.rs.
RecognizerPatternTypeSet == {RecognizerPatternTypes[i] : i \in 1..Len(RecognizerPatternTypes)}

InitAdvise == New("python") /\ NoTasksSpawned

NextAdvise ==
    \/ \E node \in RecognizeNodes : detect_calls = 0 /\ AddNode(node)
    \/ DetectPatterns
    \/ \E pattern \in RecognizerPatternTypeSet :
          detect_calls > 0 /\ SuggestOptimalLanguage(pattern)
    \/ detect_calls > 0 /\ GetSupportedLanguages
    \/ \E pattern \in RecognizerPatternTypeSet :
          detect_calls > 0 /\ GetOptimalLanguage(pattern)

SpecAdvise == InitAdvise /\ [][NextAdvise]_vars

\* A caller that builds a graph of nodes of every shape, runs detection on
\* it once and hashes its nodes: the four types no rule reads, Function
\* nodes with one and two children, ControlFlow nodes with three and four,
\* pre-tagged nodes, with no, one or two metadata entries.
NamedMetadata ==
    [k \in {"operation", "name"} |-> IF k = "operation" THEN "map_reduce" ELSE "fib"]

ShapeIds == {1, 2}

ShapeNodes ==
    {SemanticNode(id, v[1], v[2], v[3], "python", 7) :
        id \in ShapeIds,
        v \in {<<Variable, <<>>, NamedMetadata>>,
                <<Arithmetic, <<1, 2>>, NoMetadata>>,
                <<Comparison, <<2, 1>>, MapReduceMetadata>>,
                <<Loop, <<1, 2, 3, 4>>, MapReduceMetadata>>,
                <<Function, <<2>>, MapReduceMetadata>>,
                <<Function, <<1, 2>>, MapReduceMetadata>>,
                <<Function, <<3, 4>>, NamedMetadata>>,
                <<Function, <<3, 4>>, OtherMetadata>>,
                <<Function, <<3, 3>>, NoMetadata>>,
                <<ControlFlow, <<1, 2, 3>>, NoMetadata>>,
                <<ControlFlow, <<1, 2, 3, 4>>, NoMetadata>>,
                <<Pattern("Builder"), <<>>, NamedMetadata>>,
                <<Pattern("DatabaseQuery"), <<1>>, NoMetadata>>}}

InitShapes == New("rust") /\ NoTasksSpawned

NextShapes ==
    \/ \E node \in ShapeNodes : detect_calls = 0 /\ AddNode(node)
    \/ DetectPatterns
    \/ \E id \in ShapeIds : HashNode(id)

SpecShapes == InitShapes /\ [][NextShapes]_vars

\* The callers of the async examples: test_par and test_seq, each on its
\* own, and test_handlers_direct, which awaits handle_par and then
\* handle_seq; the runtime polls the spawned tasks when it chooses.
InitFlow == New("rust") /\ NoTasksSpawned

NextFlow ==
    \/ Tick
    \/ CallPar
    \/ \E handle \in {1, 2} : Spawn(handle)
    \/ \E handle \in {1, 2} : TaskStart(handle)
    \/ \E handle \in {1, 2} : TaskFinish(handle)
    \/ AwaitResult1
    \/ AwaitResult2
    \/ CallSeq
    \/ SeqResult1
    \/ SeqResult2

SpecFlow == InitFlow /\ [][NextFlow]_vars

----------------------------------------------------------------------------
(* Vocabulary of the properties.                                           *)

Range(seq) == {seq[i] : i \in 1..Len(seq)}

Count(seq, x) == Cardinality({i \in 1..Len(seq) : seq[i] = x})

\* The sequences that order the entries of seq in some way.
Orderings(seq) ==
    {s \in [1..Len(seq) -> Range(seq)] :
        \A x \in Range(seq) : Count(s, x) = Count(seq, x)}

RECURSIVE Concat(_)
\* The concatenation of a sequence of sequences.
Concat(seqs) == IF seqs = <<>> THEN <<>> ELSE Head(seqs) \o Concat(Tail(seqs))

\* The roots that name a node of the graph, in the order of root_nodes.
PresentRoots(g) ==
    LET IsPresent(id) == id \in DOMAIN g.nodes
    IN  SelectSeq(g.root_nodes, IsPresent)

\* The children of node n that name a node of the graph.
PresentChildren(g, n) == Range(g.nodes[n].children) \cap DOMAIN g.nodes

RECURSIVE Closure(_, _)
\* The nodes of S and every node a path of child references through nodes
\* of the graph leads to from them.
Closure(g, S) ==
    LET next == S \cup UNION {PresentChildren(g, n) : n \in S}
    IN  IF next = S THEN S ELSE Closure(g, next)

ReachableFromRoots(g) == Closure(g, Range(g.root_nodes) \cap DOMAIN g.nodes)

\* A path of one or more child references through nodes of the graph leads
\* from n back to n.
OnCycle(g, n) == n \in DOMAIN g.nodes /\ n \in Closure(g, PresentChildren(g, n))

\* Some node on a cycle is reachable from a root.
CycleReachable(g) == \E n \in ReachableFromRoots(g) : OnCycle(g, n)

\* Graph g with one field of node n changed.
WithPatternHash(g, n, v) == [g EXCEPT !.nodes[n].pattern_hash = v]
WithLanguage(g, n, l) == [g EXCEPT !.nodes[n].language = l]

AnyLanguages == {"", "rust", "python", "javascript", "test"}
AnyPatternHashes == {0, 7, 258, 65536, 16777223}
SomeCaches == {EmptyMap, [k \in {0} |-> <<1>>], [k \in {1, 6} |-> <<2, 1>>]}

HashCalled == ret.op = "calculate_semantic_hash"
HashReturned == HashCalled /\ ret.returns

----------------------------------------------------------------------------
(* Semantic hasher: properties.  Each is stated of the graph a call of    *)
(* calculate_semantic_hash has just been made on.                          *)

\* What calculate_semantic_hash is fed on the graph as it stands.
ThisHash == calculate_semantic_hash(Self)

\* C1: the input fed to the hasher depends on root_nodes and nodes alone: a
\* graph with the same roots and nodes and any other language or pattern
\* cache is fed the same input, and what the call returned is what a call on
\* the graph as it stands (however its nodes were inserted) is fed.
C1_HashDependsOnRootsAndNodesOnly ==
    HashCalled =>
        /\ ret.returns = ThisHash.returns
        /\ ret.returns => ret.value = ThisHash.fed
        /\ \A lang \in AnyLanguages \ {language} :
              calculate_semantic_hash(Graph(nodes, root_nodes, pattern_cache, lang))
                  = ThisHash
        /\ \A cache \in SomeCaches :
              calculate_semantic_hash(Graph(nodes, root_nodes, cache, language))
                  = ThisHash

C1_Witness ==
    /\ HashReturned
    /\ DOMAIN nodes = {1, 2, 3}
    /\ Len(root_nodes) = 2
    /\ Len(ret.value) > 40

\* C2 as stated: any other ordering of the same root ids is fed a different
\* input.
C2_AnyReorderingChangesInput ==
    HashReturned =>
        \A roots \in Orderings(root_nodes) \ {root_nodes} :
            LET other == calculate_semantic_hash(Graph(nodes, roots, pattern_cache, language))
            IN  other.returns => other.fed # ret.value

\* C2 amended: an ordering of the same root ids that orders the roots found
\* in nodes differently is fed a different input, when the call returns.
C2_ReorderingPresentRootsChangesInput ==
    HashReturned =>
        \A roots \in Orderings(root_nodes) :
            LET that == Graph(nodes, roots, pattern_cache, language)
                other == calculate_semantic_hash(that)
            IN  PresentRoots(that) # PresentRoots(Self)
                    => other.returns /\ other.fed # ret.value

C2_Witness ==
    /\ HashReturned
    /\ root_nodes = <<1, 2>>
    /\ {1, 2} \subseteq DOMAIN nodes
    /\ ret.value # calculate_semantic_hash(Graph(nodes, <<2, 1>>, pattern_cache, language)).fed

\* C3 as stated: changing the pattern_hash of any node of the graph changes
\* the input fed to the hasher.
C3_AnyPatternHashChangesInput ==
    HashReturned =>
        \A n \in DOMAIN nodes : \A v \in AnyPatternHashes \ {nodes[n].pattern_hash} :
            calculate_semantic_hash(WithPatternHash(Self, n, v)).fed # ret.value

\* C3 amended: changing the pattern_hash of a node that is reachable from a
\* root found in nodes changes the input fed to the hasher, when the call
\* returns.
C3_ReachablePatternHashChangesInput ==
    HashReturned =>
        \A n \in ReachableFromRoots(Self) :
            \A v \in AnyPatternHashes \ {nodes[n].pattern_hash} :
                LET other == calculate_semantic_hash(WithPatternHash(Self, n, v))
                IN  other.returns /\ other.fed # ret.value

C3_Witness ==
    /\ HashReturned
    /\ root_nodes = <<1>>
    /\ 3 \in ReachableFromRoots(Self)
    /\ ret.value # calculate_semantic_hash(WithPatternHash(Self, 3, 65536)).fed

\* C4 as stated: a change of the graph's own language, or of the language of
\* a node reachable from a root, changes the input fed to the hasher.
C4_AnyLanguageChangesInput ==
    HashReturned =>
        /\ \A lang \in AnyLanguages \ {language} :
              calculate_semantic_hash(Graph(nodes, root_nodes, pattern_cache, lang)).fed
                  # ret.value
        /\ \A n \in ReachableFromRoots(Self) :
              \A l \in AnyLanguages \ {nodes[n].language} :
                  calculate_semantic_hash(WithLanguage(Self, n, l)).fed # ret.value

\* C4 amended: a change of the language of a node that root_nodes lists and
\* nodes holds changes the input fed to the hasher, when the call returns;
\* a change of the graph's own language, or of the language of a node that
\* root_nodes does not list, does not.
C4_RootLanguageChangesInput ==
    HashReturned =>
        /\ \A n \in Range(PresentRoots(Self)) :
              \A l \in AnyLanguages \ {nodes[n].language} :
                  LET other == calculate_semantic_hash(WithLanguage(Self, n, l))
                  IN  other.returns /\ other.fed # ret.value
        /\ \A lang \in AnyLanguages :
              calculate_semantic_hash(Graph(nodes, root_nodes, pattern_cache, lang)).fed
                  = ret.value
        /\ \A n \in DOMAIN nodes \ Range(root_nodes), l \in AnyLanguages :
              calculate_semantic_hash(WithLanguage(Self, n, l)).fed = ret.value

C4_Witness ==
    /\ HashReturned
    /\ root_nodes = <<2, 1>>
    /\ {1, 2, 3} \subseteq ReachableFromRoots(Self)
    /\ ret.value # calculate_semantic_hash(WithLanguage(Self, 1, "test")).fed
    /\ ret.value = calculate_semantic_hash(WithLanguage(Self, 3, "test")).fed

\* The node the path p of child positions leads to from node n, or -1 when
\* the path leaves the graph.
RECURSIVE NodeAt(_, _, _)
NodeAt(g, n, p) ==
    IF n \notin DOMAIN g.nodes THEN -1
    ELSE IF p = <<>> THEN n
    ELSE IF Head(p) > Len(g.nodes[n].children) THEN -1
    ELSE NodeAt(g, g.nodes[n].children[Head(p)], Tail(p))

\* Every path of child positions that stays in the graph from node n.  A
\* walk that returns never stands on a node twice along one path, so its
\* paths have fewer steps than the graph has nodes.
WalkPaths(g, n) ==
    LET fan == {Len(g.nodes[m].children) : m \in DOMAIN g.nodes}
        width == CHOOSE w \in fan : \A v \in fan : v <= w
        all == UNION {[1..k -> 1..width] : k \in 0..(Cardinality(DOMAIN g.nodes) - 1)}
    IN  {p \in all : NodeAt(g, n, p) # -1}

\* Pre-order: a path comes before the paths it is a prefix of, and before
\* the paths that turn to a later child where it turns to an earlier one.
PreOrderBefore(p, q) ==
    \/ Len(p) < Len(q) /\ \A i \in 1..Len(p) : p[i] = q[i]
    \/ \E i \in 1..Len(p) :
          /\ i <= Len(q)
          /\ p[i] < q[i]
          /\ \A j \in 1..(i - 1) : p[j] = q[j]

RECURSIVE InPreOrder(_)
InPreOrder(paths) ==
    IF paths = {} THEN <<>>
    ELSE LET first == CHOOSE p \in paths : \A q \in paths \ {p} : PreOrderBefore(p, q)
         IN  <<first>> \o InPreOrder(paths \ {first})

\* What the claim says a root contributes: its id, its own language, then
\* the pattern_hash of the node at the end of each path, in pre-order.
RootContribution(g, id) ==
    LET paths == InPreOrder(WalkPaths(g, id))
    IN  ToLeBytes(g.nodes[id].id) \o AsBytes(g.nodes[id].language)
        \o Concat([i \in 1..Len(paths) |->
                      ToLeBytes(g.nodes[NodeAt(g, id, paths[i])].pattern_hash)])

ExpectedInput(g) ==
    Concat([i \in 1..Len(g.root_nodes) |->
               IF g.root_nodes[i] \in DOMAIN g.nodes
               THEN RootContribution(g, g.root_nodes[i])
               ELSE <<>>])

\* C5: when the call returns, the input fed to the hasher is the
\* concatenation, over root_nodes in order, of nothing for a root that nodes
\* does not hold and otherwise of the root's id, its own language and the
\* pattern_hash of every node on a path of present children from the root,
\* in pre-order (a node is fed once for each path that reaches it).
C5_InputIsRootsThenPreOrderWalk == HashReturned => ret.value = ExpectedInput(Self)

C5_Witness ==
    /\ HashReturned
    /\ DOMAIN nodes = {1, 2, 3}
    /\ root_nodes = <<1, 2>>
    /\ nodes[1].children = <<2, 3>>
    /\ nodes[2].children = <<3, 4>>
    /\ nodes[2].pattern_hash # nodes[3].pattern_hash

\* C6: a call of calculate_semantic_hash returns if and only if no cycle of
\* child references through nodes of the graph is reachable from a root
\* that nodes holds.
C6_HashReturnsIffNoReachableCycle ==
    HashCalled => (ret.returns <=> ~CycleReachable(Self))

C6_Witness ==
    /\ HashCalled
    /\ ~ret.returns
    /\ root_nodes = <<1>>
    /\ ~OnCycle(Self, 1)
    /\ OnCycle(Self, 2)

----------------------------------------------------------------------------
(* Pattern detector: properties.                                           *)

\* The first detect_patterns call on the graph has just returned: the cache
\* was empty when it started.
FirstDetectReturned == ret.op = "detect_patterns" /\ detect_calls = 1

\* Node id is cached under the numeric code of pattern p.
InBucket(p, id) ==
    /\ PatternCode(p) \in DOMAIN pattern_cache
    /\ Contains(pattern_cache[PatternCode(p)], id)

InNoBucket(id) == \A code \in DOMAIN pattern_cache : ~Contains(pattern_cache[code], id)

\* Node id is cached under the numeric code of pattern p and under no other.
OnlyInBucket(p, id) ==
    /\ InBucket(p, id)
    /\ \A code \in DOMAIN pattern_cache \ {PatternCode(p)} :
          ~Contains(pattern_cache[code], id)

\* The node's metadata maps "operation" to "map_reduce".
HasMapReduceMetadata(node) ==
    "operation" \in DOMAIN node.metadata /\ node.metadata["operation"] = "map_reduce"

\* Every id the graph mentions: its keys and the children of its nodes.
MentionedIds(g) == DOMAIN g.nodes \cup UNION {Range(g.nodes[n].children) : n \in DOMAIN g.nodes}

\* C7: started at a node from which child references through nodes of the
\* graph lead back to it, has_recursive_structure answers true, and it
\* returns: every call either returns at once or adds an id that visited did
\* not hold, so visited ends without a repeated id, within the ids the
\* graph mentions.
C7_NodeOnCycleIsRecursive ==
    \A n \in DOMAIN nodes :
        OnCycle(Self, n) =>
            LET r == has_recursive_structure(Self, n, <<>>)
            IN  /\ r.result
                /\ \A id \in Range(r.visited) : Count(r.visited, id) = 1
                /\ Range(r.visited) \subseteq MentionedIds(Self)

C7_Witness ==
    /\ FirstDetectReturned
    /\ DOMAIN nodes = {1, 2}
    /\ nodes[1].children = <<2, 3>>
    /\ nodes[2].children = <<1>>
    /\ OnCycle(Self, 1) /\ OnCycle(Self, 2)
    /\ has_recursive_structure(Self, 2, <<>>).result
    /\ InBucket("FibonacciLike", 1)

\* C8: a Function node with two children from which no cycle of child
\* references is reachable is not declared recursive, and detect_patterns
\* does not cache it as FibonacciLike.
C8_AcyclicTwoChildFunctionNotRecursive ==
    FirstDetectReturned =>
        \A n \in DOMAIN nodes :
            /\ nodes[n].node_type = Function
            /\ Len(nodes[n].children) = 2
            /\ \A m \in Closure(Self, {n}) : ~OnCycle(Self, m)
            => /\ ~has_recursive_structure(Self, n, <<>>).result
               /\ ~InBucket("FibonacciLike", n)

\* The graph of the scenario: language "python", a Function node 1 with the
\* given children, and a node 2 whose children reference node 1.
CycleScenario(children) ==
    /\ language = "python"
    /\ {1, 2} \subseteq DOMAIN nodes
    /\ nodes[1].node_type = Function
    /\ nodes[1].children = children
    /\ Contains(nodes[2].children, 1)

\* C9 as stated: with children = [2] on node 1, detect_patterns caches id 1
\* as FibonacciLike.
C9_OneChildCycleIsFibonacciLike ==
    FirstDetectReturned /\ CycleScenario(<<2>>) => InBucket("FibonacciLike", 1)

\* C9 amended: with children = [2] on node 1, detect_patterns puts id 1 in
\* no bucket (a Function node is classified only with two children or
\* more); with a second child, [2, 1] or [2, 2], it caches id 1 as
\* FibonacciLike.
C9_CycleNeedsTwoChildren ==
    FirstDetectReturned =>
        /\ CycleScenario(<<2>>) => InNoBucket(1)
        /\ \A children \in {<<2, 1>>, <<2, 2>>} :
              CycleScenario(children) => InBucket("FibonacciLike", 1)

C9_Witness ==
    /\ FirstDetectReturned
    /\ CycleScenario(<<2>>)
    /\ nodes[2].children = <<1>>
    /\ OnCycle(Self, 1)
    /\ pattern_cache = EmptyMap

\* C10: after the first detect_patterns call a ControlFlow node is cached
\* as MapReduce exactly when it has more than 3 children, whether nodes
\* holds them or not, and with 3 children or fewer it is in no bucket; when
\* the graph holds only a ControlFlow node 1 with children [2, 3, 4, 5], the
\* cache is the MapReduce bucket [1].
C10_ControlFlowWithMoreThanThreeChildren ==
    FirstDetectReturned =>
        /\ \A n \in DOMAIN nodes :
              nodes[n].node_type = ControlFlow =>
                  /\ Len(nodes[n].children) > 3 <=> InBucket("MapReduce", n)
                  /\ Len(nodes[n].children) > 3 =>
                        \A code \in DOMAIN pattern_cache \ {PatternCode("MapReduce")} :
                            ~Contains(pattern_cache[code], n)
                  /\ Len(nodes[n].children) <= 3 => InNoBucket(n)
        /\ ( /\ DOMAIN nodes = {1}
             /\ nodes[1].node_type = ControlFlow
             /\ nodes[1].children = <<2, 3, 4, 5>> )
           => pattern_cache = [code \in {PatternCode("MapReduce")} |-> <<1>>]

C10_Witness ==
    /\ FirstDetectReturned
    /\ DOMAIN nodes = {1}
    /\ nodes[1].node_type = ControlFlow
    /\ nodes[1].children = <<2, 3, 4, 5>>
    /\ pattern_cache = [code \in {1} |-> <<1>>]

\* C11: after the first detect_patterns call a Function node with at least
\* 2 children is cached as FibonacciLike (and nothing else) when
\* has_recursive_structure holds for it, whatever its metadata; otherwise as
\* MapReduce (and nothing else) when its metadata maps "operation" to
\* "map_reduce"; otherwise it is in no bucket.  A Function node with fewer
\* than 2 children is in no bucket, recursive or annotated as it may be.
C11_FunctionClassification ==
    FirstDetectReturned =>
        \A n \in DOMAIN nodes :
            nodes[n].node_type = Function =>
                LET recursive == has_recursive_structure(Self, n, <<>>).result
                IN  IF Len(nodes[n].children) < 2 THEN InNoBucket(n)
                    ELSE IF recursive THEN OnlyInBucket("FibonacciLike", n)
                    ELSE IF HasMapReduceMetadata(nodes[n])
                         THEN OnlyInBucket("MapReduce", n)
                         ELSE InNoBucket(n)

C11_Witness ==
    /\ FirstDetectReturned
    /\ DOMAIN nodes = {1, 2}
    /\ nodes[1] = SemanticNode(1, Function, <<1, 2>>, MapReduceMetadata, "python", 7)
    /\ nodes[2] = SemanticNode(2, Function, <<2>>, MapReduceMetadata, "python", 7)
    /\ has_recursive_structure(Self, 2, <<>>).result
    /\ pattern_cache = [code \in {0} |-> <<1>>]

\* C12: after the first detect_patterns call a node typed Pattern(p) is
\* cached once under the numeric code of p (the position of p in the
\* detector's enum, from 0) and under no other code, for each of the nine
\* pattern kinds and whatever its children, metadata and language.
C12_PreTaggedNodeClassifiedDirectly ==
    FirstDetectReturned =>
        \A n \in DOMAIN nodes :
            nodes[n].node_type[1] = "Pattern" =>
                LET p == nodes[n].node_type[2]
                IN  /\ PatternCode(p) = Discriminant[p]
                    /\ OnlyInBucket(p, n)
                    /\ Count(pattern_cache[Discriminant[p]], n) = 1

C12_Witness ==
    /\ FirstDetectReturned
    /\ DOMAIN nodes = {1, 2}
    /\ nodes[1] = SemanticNode(1, Pattern("DatabaseQuery"), <<1, 2, 3, 4>>,
                               MapReduceMetadata, "rust", 7)
    /\ nodes[2] = SemanticNode(2, Pattern("Builder"), <<>>, NoMetadata, "python", 7)
    /\ pattern_cache = [code \in {2, 8} |-> IF code = 2 THEN <<2>> ELSE <<1>>]

\* Graph g with every child id that names no node of g removed from every
\* children list.
WithoutDanglingIds(g) ==
    LET IsPresent(id) == id \in DOMAIN g.nodes
    IN  [g EXCEPT !.nodes =
            [n \in DOMAIN g.nodes |->
                [g.nodes[n] EXCEPT !.children = SelectSeq(@, IsPresent)]]]

\* C13: started at any id the graph mentions, has_recursive_structure
\* answers as it does on the graph with the dangling child ids removed.
C13_DanglingIdsContributeNothing ==
    FirstDetectReturned =>
        \A n \in MentionedIds(Self) :
            has_recursive_structure(Self, n, <<>>).result
                = has_recursive_structure(WithoutDanglingIds(Self), n, <<>>).result

\* Every id some bucket of the cache holds.
CachedIds == UNION {Range(pattern_cache[code]) : code \in DOMAIN pattern_cache}

\* C14: the first detect_patterns call returns on every graph, with cycles,
\* self-loops, dangling child ids, roots that name no node or no nodes at
\* all.  Each walk of has_recursive_structure it makes ends: visited never
\* holds an id twice and holds only ids the graph mentions, so it grows at
\* most that many times.  When the call has returned, every node the graph
\* held is cached once under the pattern analyze_node_pattern gives it and
\* nowhere else, a node it gives no pattern is in no bucket, and the cache
\* holds no other id.
C14_DetectPatternsAlwaysReturns ==
    /\ \A n \in DOMAIN nodes :
          LET r == has_recursive_structure(Self, n, <<>>)
          IN  /\ \A id \in Range(r.visited) : Count(r.visited, id) = 1
              /\ Range(r.visited) \subseteq MentionedIds(Self)
    /\ FirstDetectReturned =>
          /\ ret.returns
          /\ CachedIds \subseteq DOMAIN nodes
          /\ \A n \in DOMAIN nodes :
                LET pattern == analyze_node_pattern(Self, nodes[n])
                IN  IF pattern = <<>> THEN InNoBucket(n)
                    ELSE /\ OnlyInBucket(pattern[1], n)
                         /\ Count(pattern_cache[PatternCode(pattern[1])], n) = 1

C14_Witness ==
    /\ FirstDetectReturned
    /\ root_nodes = <<1>>
    /\ DOMAIN nodes = {2}
    /\ nodes[2].node_type = Function
    /\ nodes[2].children = <<2, 1>>
    /\ OnCycle(Self, 2)
    /\ pattern_cache = [code \in {0} |-> <<2>>]

\* The ids that analyze_node_pattern classifies under the numeric code.
ClassifiedUnder(code) ==
    {n \in DOMAIN nodes :
        LET pattern == analyze_node_pattern(Self, nodes[n])
        IN  pattern # <<>> /\ PatternCode(pattern[1]) = code}

\* C15: when a caller has built a graph and then called detect_patterns k
\* times in a row (k >= 1) without touching the nodes, every classified id
\* occurs exactly k times in the bucket of its pattern, every bucket has k
\* entries for each of its ids, and the ids of each bucket are the ids
\* classified under its code, as after the first call; no bucket is empty.
C15_RepeatedDetectionAppendsDuplicates ==
    detect_calls >= 1 =>
        /\ \A code \in DOMAIN pattern_cache :
              /\ Range(pattern_cache[code]) = ClassifiedUnder(code)
              /\ ClassifiedUnder(code) # {}
              /\ \A n \in ClassifiedUnder(code) :
                    Count(pattern_cache[code], n) = detect_calls
              /\ Len(pattern_cache[code]) = detect_calls * Cardinality(ClassifiedUnder(code))
        /\ \A p \in PatternTypeSet :
              ClassifiedUnder(PatternCode(p)) # {} => PatternCode(p) \in DOMAIN pattern_cache

C15_Witness ==
    /\ detect_calls = 3
    /\ ret.op = "detect_patterns"
    /\ DOMAIN nodes = {1, 2}
    /\ nodes[1].node_type = Function
    /\ nodes[2].node_type = Pattern("DatabaseQuery")
    /\ pattern_cache = [code \in {0, 8} |-> IF code = 0 THEN <<1, 1, 1>> ELSE <<2, 2, 2>>]

----------------------------------------------------------------------------
(* Mutators and the cache: properties.                                     *)

\* C16: pattern_cache is empty as long as detect_patterns has not been
\* called; a step that is not a detect_patterns call (add_node, a root
\* appended, calculate_semantic_hash) leaves it as it is; so when add_node
\* replaces a node that some bucket holds by a node that no rule
\* classifies, the id stays in that bucket.
C16_CacheChangedOnlyByDetection ==
    /\ [](detect_calls = 0 => pattern_cache = EmptyMap)
    /\ [][ /\ ret'.op # "detect_patterns" => pattern_cache' = pattern_cache
           /\ \A code \in DOMAIN pattern_cache : \A id \in Range(pattern_cache[code]) :
                 ( /\ ret' = Returned("add_node", <<id>>)
                   /\ analyze_node_pattern(Self', nodes'[id]) = <<>> )
                 => ( /\ code \in DOMAIN pattern_cache'
                      /\ Contains(pattern_cache'[code], id) ) ]_vars

C16_Witness ==
    /\ ret = Returned("add_node", <<1>>)
    /\ detect_calls = 1
    /\ DOMAIN nodes = {1}
    /\ nodes[1].node_type = Function
    /\ nodes[1].children = <<>>
    /\ analyze_node_pattern(Self, nodes[1]) = <<>>
    /\ pattern_cache = [code \in {1} |-> <<1>>]

\* C17: a step add_node(n) leaves n under n.id in nodes, whether or not the
\* id had a node before, leaves every other entry, root_nodes, language and
\* the cache as they were, and returns n.id; it can be taken whenever the
\* graph can be called.  So every key of nodes holds a node with that id,
\* the last one added with it.
C17_AddNodeInsertsOrReplaces ==
    /\ [](\A id \in DOMAIN nodes : nodes[id].id = id)
    /\ [][ \A n \in DetectNodes :
              AddNode(n) =>
                 /\ DOMAIN nodes' = DOMAIN nodes \cup {n.id}
                 /\ nodes'[n.id] = n
                 /\ \A id \in DOMAIN nodes \ {n.id} : nodes'[id] = nodes[id]
                 /\ root_nodes' = root_nodes
                 /\ language' = language
                 /\ pattern_cache' = pattern_cache
                 /\ ret' = Returned("add_node", <<n.id>>) ]_vars
    /\ [](Running => \A n \in DetectNodes : ENABLED AddNode(n))

C17_Witness ==
    /\ ret = Returned("add_node", <<1>>)
    /\ DOMAIN nodes = {1, 2}
    /\ nodes[1].node_type = Function
    /\ nodes[1].children = <<2, 1>>
    /\ nodes[2].node_type = ControlFlow
    /\ pattern_cache = [code \in {1} |-> <<1>>]

----------------------------------------------------------------------------
(* Pattern recognizer: properties.                                         *)

\* The decoding as the claims state it: the code modulo 7 against a fixed
\* ordering of seven kinds, the last one standing for "else".
DecodeOrder ==
    <<"FibonacciLike", "MapReduce", "IteratorChain", "Builder", "RecursiveTree",
      "WebEndpoint", "Cacheable">>

DecodedKind(code) == DecodeOrder[(code % 7) + 1]

\* The cache keys of graph g for which a match is due: its language is a
\* registry key and the decoded kind is in the list registered for it.
MatchingCodes(g) ==
    IF g.language \notin DOMAIN patterns THEN {}
    ELSE {code \in DOMAIN g.pattern_cache :
             DecodedKind(code) \in Range(patterns[g.language])}

\* The match due for the entry of g under code.
MatchDue(g, code) ==
    [pattern_type |-> DecodedKind(code), language |-> g.language,
     node_count |-> Len(g.pattern_cache[code]),
     semantic_hash |-> calculate_semantic_hash(g).fed]

RECURSIVE MatchesDueBefore(_, _)
\* The number of matches due for the graphs before the i-th.
MatchesDueBefore(graphs, i) ==
    IF i <= 1 THEN 0
    ELSE MatchesDueBefore(graphs, i - 1) + Cardinality(MatchingCodes(graphs[i - 1]))

\* matches is, graph after graph in the order of the list, the matches due
\* for the graph, each as often as it is due, in some order; nothing else.
MatchesAsDue(graphs, matches) ==
    /\ Len(matches) = MatchesDueBefore(graphs, Len(graphs) + 1)
    /\ \A i \in 1..Len(graphs) :
          LET g == graphs[i]
              from == MatchesDueBefore(graphs, i)
              part == SubSeq(matches, from + 1, from + Cardinality(MatchingCodes(g)))
          IN  \A code \in MatchingCodes(g) :
                  Count(part, MatchDue(g, code))
                      = Cardinality({c \in MatchingCodes(g) : MatchDue(g, c) = MatchDue(g, code)})

\* C18: a call of recognize_cross_language_patterns that returns gives, for
\* each graph of the list in order, one match for each cache entry whose
\* code modulo 7 decodes to a kind registered for the graph's language,
\* carrying the decoded kind, the graph's language and the length of the
\* entry's id list (an id cached twice counts twice), and no other match; a
\* graph in a language the registry does not know gives none.
C18_MatchesAreTheRegisteredCacheEntries ==
    [][ \A graphs \in GraphLists :
          /\ ret'.op = "recognize_cross_language_patterns"
          /\ ret'.returns
          /\ RecognizeCrossLanguagePatterns(graphs)
          => MatchesAsDue(graphs, ret'.value) ]_vars

C18_Witness ==
    /\ ret.op = "recognize_cross_language_patterns"
    /\ ret.returns
    /\ language = "rust"
    /\ pattern_cache = [code \in {0, 7} |-> IF code = 0 THEN <<2, 2>> ELSE <<1, 1>>]
    /\ Len(ret.value) = 3
    /\ ret.value[1].language = "python"
    /\ ret.value[1].pattern_type = "MapReduce"
    /\ \A i \in {2, 3} :
          /\ ret.value[i].pattern_type = "FibonacciLike"
          /\ ret.value[i].language = "rust"
          /\ ret.value[i].node_count = 2

\* C19: when the first detect_patterns call has returned, the code a node
\* is cached under decodes (hash_to_pattern) to the pattern kind
\* analyze_node_pattern gave the node, a kind of the recognizer's enum.
C19_DecodingYieldsStoredKind ==
    FirstDetectReturned =>
        \A n \in DOMAIN nodes :
            LET pattern == analyze_node_pattern(Self, nodes[n])
            IN  pattern # <<>> =>
                    /\ InBucket(pattern[1], n)
                    /\ hash_to_pattern(PatternCode(pattern[1])) \in Range(RecognizerPatternTypes)
                    /\ hash_to_pattern(PatternCode(pattern[1])) = pattern[1]

\* C20: a call of recognize_cross_language_patterns returns, whatever the
\* graphs of the list hold: cycles, dangling ids, no nodes, a language the
\* registry does not know, a stale cache.
C20_RecognizeAlwaysReturns ==
    ret.op = "recognize_cross_language_patterns" => ret.returns

----------------------------------------------------------------------------
(* Language advice: properties.                                            *)

\* The registered languages whose list contains pattern p.
Candidates(p) == {l \in DOMAIN patterns : p \in Range(patterns[l])}

\* C21: a call suggest_optimal_language(p) returns nothing exactly when no
\* registered list contains p; otherwise it returns one registered language
\* whose list contains p and is at least as long as the list of every other
\* registered language whose list contains p.  What it returns is a key of
\* the registry, the languages get_supported_languages lists.
C21_SuggestionIsARegisteredMaximum ==
    [][ \A p \in RecognizerPatternTypeSet :
          ret'.op = "suggest_optimal_language" /\ SuggestOptimalLanguage(p)
          => /\ ret'.value = <<>> <=> Candidates(p) = {}
             /\ Len(ret'.value) <= 1
             /\ \A i \in 1..Len(ret'.value) :
                   /\ ret'.value[i] \in Candidates(p)
                   /\ \A l \in Candidates(p) :
                         Len(patterns[l]) <= Len(patterns[ret'.value[i]])
                   /\ \A langs \in KeyOrders(patterns) :
                         ret'.value[i] \in Range(get_supported_languages(langs)) ]_vars

C21_Witness ==
    /\ ret.op = "suggest_optimal_language"
    /\ ret.value = <<"javascript">>
    /\ detect_calls = 1
    /\ Candidates("MapReduce") = {"python", "javascript"}
    /\ suggest_optimal_language("MapReduce", <<"python", "javascript">>) = <<"javascript">>

\* The table as C22 states it.
StatedOptimalLanguage ==
    [FibonacciLike |-> "rust", MapReduce |-> "python", WebEndpoint |-> "typescript",
     DatabaseQuery |-> "rust", DataProcessor |-> "python"]

\* The table with the entry for IteratorChain.
FixedOptimalLanguage ==
    [FibonacciLike |-> "rust", MapReduce |-> "python", IteratorChain |-> "rust",
     WebEndpoint |-> "typescript", DatabaseQuery |-> "rust", DataProcessor |-> "python"]

\* A get_optimal_language step returns what the table gives for its
\* pattern, and nothing for a pattern the table does not list.
AnswersFrom(table) ==
    \A p \in RecognizerPatternTypeSet :
        ret'.op = "get_optimal_language" /\ GetOptimalLanguage(p)
        => ret'.value = IF p \in DOMAIN table THEN <<table[p]>> ELSE <<>>

\* C22 as stated: get_optimal_language answers from the five-entry table
\* and returns nothing for every other pattern kind.
C22_FiveEntryTable == [][AnswersFrom(StatedOptimalLanguage)]_vars

\* C22 amended: get_optimal_language answers from a six-entry table, the
\* five stated entries and IteratorChain -> rust, and returns nothing for
\* the nine other kinds; the answer does not follow the registry
\* (typescript is no registry key, rust does not register DatabaseQuery).
C22_SixEntryTable ==
    /\ [][AnswersFrom(FixedOptimalLanguage)]_vars
    /\ [](/\ "typescript" \notin DOMAIN patterns
          /\ "DatabaseQuery" \notin Range(patterns["rust"]))

C22_Witness ==
    /\ ret.op = "get_optimal_language"
    /\ ret.value = <<"typescript">>
    /\ detect_calls = 1
    /\ get_optimal_language("IteratorChain") = <<"rust">>
    /\ suggest_optimal_language("WebEndpoint", <<"javascript">>) = <<"javascript">>

\* C30: what a call suggest_optimal_language(p) returns is what every call
\* with the pattern p returns, in whatever order the map of scores is
\* iterated.
C30_SuggestionDependsOnPatternOnly ==
    [][ \A p \in RecognizerPatternTypeSet :
          ret'.op = "suggest_optimal_language" /\ SuggestOptimalLanguage(p)
          => \A langs \in KeyOrders(language_scores(p)) :
                 suggest_optimal_language(p, langs) = ret'.value ]_vars

----------------------------------------------------------------------------
(* Recursion detection and classification: properties.                     *)

RECURSIVE ReferencesFrom(_, _)
\* The number of child references the nodes of S make, each entry of each
\* children list counted.
ReferencesFrom(g, S) ==
    IF S = {} THEN 0
    ELSE LET m == CHOOSE x \in S : TRUE
         IN  Len(g.nodes[m].children) + ReferencesFrom(g, S \ {m})

\* A depth-first walk from n that expands each node of the graph the first
\* time it meets its id encounters n, then one id for each child reference
\* of each node it expands: it meets some id a second time exactly when
\* these encounters outnumber the ids met.
EncountersAnIdTwice(g, n) ==
    LET expanded == IF n \in DOMAIN g.nodes THEN Closure(g, {n}) ELSE {}
        met == {n} \cup UNION {Range(g.nodes[m].children) : m \in expanded}
    IN  1 + ReferencesFrom(g, expanded) > Cardinality(met)

\* C24: started at any id the graph mentions, has_recursive_structure
\* answers true exactly when the depth-first walk through the nodes of the
\* graph meets some id, of a node or of none, a second time; no cycle is
\* needed for that.
C24_RecursiveIffAnIdIsMetTwice ==
    \A n \in MentionedIds(Self) :
        has_recursive_structure(Self, n, <<>>).result <=> EncountersAnIdTwice(Self, n)

C24_Witness ==
    /\ DOMAIN nodes = {1, 2, 3}
    /\ nodes[1].children = <<2, 3>>
    /\ nodes[2].children = <<3, 4>>
    /\ nodes[3].children = <<>>
    /\ \A n \in DOMAIN nodes : ~OnCycle(Self, n)
    /\ HashReturned
    /\ has_recursive_structure(Self, 1, <<>>).result
    /\ ~has_recursive_structure(Self, 2, <<>>).result

\* The pattern kind the rules give a node, as a set: the kind or nothing.
\* A Function node with 2 children or more is FibonacciLike when the walk
\* from it meets an id twice, else MapReduce when annotated so; a
\* ControlFlow node with more than 3 children is MapReduce; a node typed
\* Pattern(p) is p; every other shape has no kind.
KindByRule(g, node) ==
    IF node.node_type = Function /\ Len(node.children) >= 2
    THEN IF EncountersAnIdTwice(g, node.id) THEN {"FibonacciLike"}
         ELSE IF HasMapReduceMetadata(node) THEN {"MapReduce"} ELSE {}
    ELSE IF node.node_type = ControlFlow /\ Len(node.children) > 3 THEN {"MapReduce"}
    ELSE IF node.node_type[1] = "Pattern" THEN {node.node_type[2]}
    ELSE {}

\* C25: when the first detect_patterns call has returned, the keys of the
\* cache are the codes of the kinds the rules give some node, the bucket of
\* a code holds each node of that kind once and no other id, whatever the
\* order the nodes were visited in, and a node the rules give no kind
\* (Variable, Arithmetic, Comparison, Loop, Function with fewer than 2
\* children or neither recursive nor annotated, ControlFlow with at most 3
\* children) is in no bucket.
C25_CacheIsTheClassification ==
    FirstDetectReturned =>
        /\ \A p \in PatternTypeSet :
              LET ids == {n \in DOMAIN nodes : p \in KindByRule(Self, nodes[n])}
              IN  IF ids = {} THEN Discriminant[p] \notin DOMAIN pattern_cache
                  ELSE /\ Discriminant[p] \in DOMAIN pattern_cache
                       /\ Range(pattern_cache[Discriminant[p]]) = ids
                       /\ Len(pattern_cache[Discriminant[p]]) = Cardinality(ids)
        /\ DOMAIN pattern_cache \subseteq {Discriminant[p] : p \in PatternTypeSet}
        /\ \A n \in DOMAIN nodes :
              ( \/ nodes[n].node_type \in {Variable, Arithmetic, Comparison, Loop}
                \/ nodes[n].node_type = Function /\ Len(nodes[n].children) < 2
                \/ nodes[n].node_type = ControlFlow /\ Len(nodes[n].children) <= 3
                \/ KindByRule(Self, nodes[n]) = {} )
              => InNoBucket(n)

C25_Witness ==
    /\ FirstDetectReturned
    /\ DOMAIN nodes = {1, 2}
    /\ nodes[1].node_type = Loop
    /\ Len(nodes[1].children) = 4
    /\ HasMapReduceMetadata(nodes[1])
    /\ nodes[2].node_type = ControlFlow
    /\ pattern_cache = [code \in {1} |-> <<2>>]

\* The keys of a metadata map in ascending byte-wise order.
KeysAscending(metadata) ==
    CHOOSE s \in KeyOrders(metadata) :
        \A i, j \in 1..Len(s) : i < j => StrLess(s[i], s[j])

\* What a node feeds when its fields are fed in declaration order and its
\* metadata entries in ascending order of their keys.
FedInKeyOrder(node) ==
    LET keys == KeysAscending(node.metadata)
        type == IF node.node_type[1] = "Pattern"
                THEN ToLeBytes(6) \o ToLeBytes(Discriminant[node.node_type[2]])
                ELSE ToLeBytes(NodeTypeDiscriminant(node.node_type))
    IN  ToLeBytes(node.id) \o type
        \o ToLeBytes(Len(node.children))
        \o Concat([i \in 1..Len(node.children) |-> ToLeBytes(node.children[i])])
        \o Concat([i \in 1..Len(keys) |->
                     AsBytes(keys[i]) \o <<255>> \o AsBytes(node.metadata[keys[i]]) \o <<255>>])
        \o AsBytes(node.language) \o <<255>>
        \o ToLeBytes(node.pattern_hash)

\* C26: what SemanticNode::hash feeds the hasher is a function of the node
\* value alone: whatever order the metadata map iterates in, the node feeds
\* the same sequence, its fields in order with the metadata entries sorted
\* by key, so equal nodes feed equal sequences.
C26_HashIgnoresMetadataOrder ==
    [][\A id \in ShapeIds :
          (ret'.op = "hash" /\ HashNode(id)) =>
              /\ \A metadata_iter \in KeyOrders(nodes[id].metadata) :
                    hash_node(nodes[id], metadata_iter) = ret'.value
              /\ ret'.value = FedInKeyOrder(nodes[id])]_vars

C26_Witness ==
    /\ ret.op = "hash"
    /\ 1 \in DOMAIN nodes
    /\ nodes[1].metadata = NamedMetadata
    /\ ret.value = hash_node(nodes[1], <<"operation", "name">>)
    /\ ret.value = hash_node(nodes[1], <<"name", "operation">>)

\* C28: in every state reached from new() by add_node, root appends and
\* detect_patterns, each id in a bucket of pattern_cache is a key of nodes,
\* each key of pattern_cache is one of the codes 0..8, and no bucket is
\* empty.
C28_CacheIsWellFormed ==
    /\ CachedIds \subseteq DOMAIN nodes
    /\ DOMAIN pattern_cache \subseteq 0..8
    /\ \A code \in DOMAIN pattern_cache : pattern_cache[code] # <<>>

C28_Witness ==
    /\ detect_calls = MaxRepeat
    /\ DOMAIN pattern_cache = {1, 8}
    /\ Len(pattern_cache[8]) = MaxRepeat
    /\ CachedIds = {1, 2}
    /\ root_nodes # <<>>

\* C27: a detect_patterns call leaves nodes, root_nodes and language as they
\* were and the graph hashes the same after it as before it; a
\* calculate_semantic_hash call changes no field of the graph; and in every
\* state the hash of the graph is the hash of the same graph with any other
\* pattern_cache.
C27_DetectTouchesOnlyTheCache ==
    /\ [][ /\ ret'.op = "detect_patterns" =>
                /\ nodes' = nodes
                /\ root_nodes' = root_nodes
                /\ language' = language
                /\ calculate_semantic_hash(Self') = calculate_semantic_hash(Self)
           /\ ret'.op = "calculate_semantic_hash" =>
                /\ nodes' = nodes
                /\ root_nodes' = root_nodes
                /\ language' = language
                /\ pattern_cache' = pattern_cache ]_vars
    /\ [](\A cache \in SomeCaches \cup {EmptyMap} :
            calculate_semantic_hash(Graph(nodes, root_nodes, cache, language)) = ThisHash)

C27_Witness ==
    /\ HashReturned
    /\ ret.value # <<>>
    /\ detect_calls = 1
    /\ pattern_cache = [code \in {0, 1} |-> IF code = 0 THEN <<1>> ELSE <<2>>]
    /\ root_nodes = <<1>>

\* The pattern_hash values met on the pre-order walk from node id.
PreOrderPatternHashes(g, id) ==
    LET paths == InPreOrder(WalkPaths(g, id))
    IN  [i \in 1..Len(paths) |-> g.nodes[NodeAt(g, id, paths[i])].pattern_hash]

\* The graph with the child lists of its nodes replaced.
Reshaped(g) ==
    {[g EXCEPT !.nodes = [n \in DOMAIN g.nodes |->
                             [g.nodes[n] EXCEPT !.children = c[n]]]] :
        c \in [DOMAIN g.nodes -> HashChildLists]}

\* The graph with one node added or put in the place of another.
Replaced(g) == {[g EXCEPT !.nodes = MapInsert(g.nodes, m.id, m)] : m \in HashNodes}

\* The graph with every node given another type and other metadata.
Retyped(g, node_type, metadata) ==
    [g EXCEPT !.nodes = [n \in DOMAIN g.nodes |->
                            [g.nodes[n] EXCEPT !.node_type = node_type,
                                               !.metadata = metadata]]]

\* The graph with the ids a and b exchanged in its nodes and their child
\* lists, the root list left as it is.
Renamed(g, a, b) ==
    LET to(n) == IF n = a THEN b ELSE IF n = b THEN a ELSE n
    IN  [g EXCEPT !.nodes =
            [n \in {to(m) : m \in DOMAIN g.nodes} |->
                [g.nodes[to(n)] EXCEPT
                    !.id = n,
                    !.children = [i \in 1..Len(g.nodes[to(n)].children) |->
                                     to(g.nodes[to(n)].children[i])]]]]

Alternatives(g) ==
    Reshaped(g) \cup Replaced(g)
    \cup {Retyped(g, ControlFlow, MapReduceMetadata), Retyped(g, Pattern("Builder"), NoMetadata)}
    \cup {Renamed(g, a, b) : a, b \in {2, 3, 4}}
    \cup {Retyped(Renamed(h, 2, 3), Loop, MapReduceMetadata) : h \in Reshaped(g)}

\* Two graphs with the same root list whose roots name nodes with the same
\* ids and languages and the same pattern_hash values in pre-order.
SameRootsAndPreOrder(g, h) ==
    /\ g.root_nodes = h.root_nodes
    /\ PresentRoots(g) = PresentRoots(h)
    /\ \A r \in Range(PresentRoots(g)) :
          /\ g.nodes[r].id = h.nodes[r].id
          /\ g.nodes[r].language = h.nodes[r].language
          /\ PreOrderPatternHashes(g, r) = PreOrderPatternHashes(h, r)

\* C29: when calculate_semantic_hash has returned, every graph without a
\* reachable cycle that has the same roots, root languages and per-root
\* pre-order pattern_hash sequences is fed the input that was returned,
\* whatever its child lists, its non-root ids, its node types and its
\* metadata are.
C29_HashIgnoresShapeAndNonRootIdentity ==
    HashReturned =>
        \A h \in Alternatives(Self) :
            (~CycleReachable(h) /\ SameRootsAndPreOrder(Self, h)) =>
                /\ calculate_semantic_hash(h).returns
                /\ calculate_semantic_hash(h).fed = ret.value

C29_Witness ==
    /\ HashReturned
    /\ root_nodes = <<1>>
    /\ DOMAIN nodes = {1, 2, 3}
    /\ nodes[1].children = <<2, 3>>
    /\ nodes[2].children = <<>>
    /\ nodes[3].children = <<>>
    /\ nodes[2].pattern_hash # nodes[3].pattern_hash
    /\ \E h \in Reshaped(Self) :
          /\ h.nodes[1].children = <<2>>
          /\ h.nodes[2].children = <<3, 4>>
          /\ SameRootsAndPreOrder(Self, h)
          /\ calculate_semantic_hash(h).fed = ret.value
    /\ SameRootsAndPreOrder(Self, Renamed(Self, 2, 3))
    /\ Renamed(Self, 2, 3) # Self
    /\ SameRootsAndPreOrder(Self, Retyped(Self, ControlFlow, MapReduceMetadata))

----------------------------------------------------------------------------
(* Async examples: properties.                                             *)

\* C23: whenever run_example_par has returned, under every interleaving of
\* its two tasks with each other, the caller and the clock, it returned
\* [1, 2], the outputs in spawn order; whenever run_example_seq has
\* returned it returned [1, 2]; so the two results are equal.
C23_ParReturnsInSpawnOrder ==
    /\ caller.p # <<>> => caller.p = <<1, 2>>
    /\ caller.s # <<>> => caller.s = <<1, 2>>
    /\ (caller.p # <<>> /\ caller.s # <<>>) => caller.p = caller.s
    /\ ret.op \in {"run_example_par", "run_example_seq"} => ret.value = <<1, 2>>

C23_Witness ==
    /\ ret.op = "run_example_par"
    /\ caller.p = <<1, 2>>
    /\ caller.s = <<1, 2>>
    /\ tasks[2].finished_at < tasks[1].finished_at
    /\ tasks[2].deadline < tasks[1].deadline

====
